---------------------------- MODULE Spec2Model ----------------------------
(***************************************************************************)
(* Model of the task orchestrator (src/src/orquestrador.py, src/src/task.py *)
(* and the dependency helpers of src/src/utils.py).                         *)
(*                                                                         *)
(* An Orquestrador owns a dict of Task objects.  Callers register and       *)
(* remove tasks, plan an execution order and run the tasks sequentially or  *)
(* on a ThreadPoolExecutor.  A step is a stretch of one thread's code that  *)
(* ends where the thread hands work to, or waits for, another thread, or    *)
(* where a task's function is called or returns.                            *)
(***************************************************************************)
EXTENDS Naturals, Sequences, FiniteSets

\* ------------------------------------------------------------------ bounds
MaxRetry == 1
MaxWorkers == 2
MaxDeps == 2
MaxCalls == 4
MaxConcTasks == 1
MaxObsTasks == 2
MaxLiveTasks == 2

\* Names a caller may register, the threads calling the public methods.
NameList == <<"a", "b", "c">>
TaskNames == {NameList[i] : i \in 1..Len(NameList)}
MainCaller == "main"
Callers == {"main", "other"}

None == "None"
Stamp == "set"

VARIABLES
    tasks,            \* self.tasks: the keys of the dict, in insertion order
    task,             \* self.tasks[name]: the Task objects
    execution_order,  \* self.execution_order
    is_running,       \* self.is_running
    start_time,       \* self.start_time
    end_time,         \* self.end_time
    results,          \* self.results
    max_workers,      \* self.max_workers
    pc,               \* where each caller is inside a public method
    parallel,         \* run(parallel): the argument of each caller's run()
    pos,              \* _run_sequential: the for loop's iterator, that is the part
                      \* of the list it was started on that is still to come
    completed_tasks,  \* _run_parallel: the local set completed_tasks
    future_to_task,   \* _run_parallel: the tasks submitted in the current batch
    yielded,          \* _run_parallel: futures as_completed has handed out
    work_queue,       \* ThreadPoolExecutor: submitted, not yet taken by a worker
    frame,            \* _execute_task: one activation per (caller, task)
    raising,          \* _run_parallel: the task whose exception is propagating
    ret,              \* what each caller's last call returned or raised
    snap,             \* get_status: the locals of each caller's activation
    calls,            \* number of calls of public methods made so far
    invocations,      \* calls of task.function per task since run() was entered
    fresh             \* whether every task was Pending, attempts 0 when the
                      \* current run() or reset() was entered

orch == <<tasks, task, execution_order, is_running, start_time, end_time,
          results, max_workers>>
locals == <<pc, parallel, pos, completed_tasks, future_to_task, yielded,
            work_queue, frame, raising, ret, snap>>
history == <<invocations, fresh>>
vars == <<orch, locals, history, calls>>

\* The run-level start_time and end_time before any run: None.
NoTime == 0

\* datetime.now() as run() reads it: the clock ticks with every call of a
\* public method, so a reading is never earlier than one made before it, and
\* the entry of a call is later than the return of any call before it.
Now == calls

\* ---------------------------------------------------------------- helpers
Range(s) == {s[i] : i \in 1..Len(s)}

Registered == Range(tasks)

EmptyDict == [n \in {} |-> None]

\* Sequences over S of length at most k.
SeqsUpTo(S, k) == UNION {[1..i -> S] : i \in 0..k}

\* The position of a name in NameList.
Index(n) == CHOOSE i \in 1..Len(NameList) : NameList[i] = n

\* The dependency lists a caller passes to add_task: the code reads a list
\* only by iterating over it, so one order of each list stands for all.
DepLists ==
    {d \in SeqsUpTo(TaskNames, MaxDeps) :
        \A i \in 1..Len(d) - 1 : Index(d[i]) <= Index(d[i + 1])}

\* Task.__init__: the state of a task object right after construction.
NewTask(dependencies, retry_count) ==
    [dependencies |-> dependencies,
     retry_count  |-> retry_count,
     status       |-> "pending",
     start_time   |-> None,
     end_time     |-> None,
     result       |-> None,
     error        |-> None,
     attempts     |-> 0]

\* What the slot of an unregistered name holds.
NoTask == NewTask(<<>>, 0)

\* The value a task's function returns when it does not raise.
WorkValue(n) ==
    CASE n = "a" -> "resultado_a"
      [] n = "b" -> "resultado_b"
      [] OTHER   -> "resultado_c"

\* Task.reset leaving the error of the last attempt in place.
TaskResetKeepingError(t) ==
    [t EXCEPT !.status = "pending", !.start_time = None, !.end_time = None,
              !.result = None, !.attempts = 0]

\* Task.reset
TaskReset(t) ==
    [t EXCEPT !.status = "pending", !.start_time = None, !.end_time = None,
              !.result = None, !.error = None, !.attempts = 0]

NoFrame == [phase |-> "none", attempts |-> 0]

\* What a call gave its caller: the method, the exception it raised ("ok"
\* when it returned), the task the call or its exception names, and the
\* value returned where the model reads it.
NoRet == [op |-> "none", err |-> "none", task |-> None, value |-> <<>>]
Ret(op, err) == [op |-> op, err |-> err, task |-> None, value |-> <<>>]
RetTask(op, err, n) == [op |-> op, err |-> err, task |-> n, value |-> <<>>]
RetValue(op, v) == [op |-> op, err |-> "ok", task |-> None, value |-> v]

\* get_status: task_status as built so far (one pair of name and status per
\* task read), the fields of the returned dict the model follows, and i, the
\* position of the loop under way.  quiet and calls record how things stood
\* when the call began: whether no other caller was inside a method, and the
\* number of calls made.
NoSnap ==
    [task_status |-> <<>>, is_running |-> FALSE, total_tasks |-> 0,
     completed_tasks |-> 0, failed_tasks |-> 0, i |-> 0,
     quiet |-> TRUE, calls |-> 0]

\* ------------------------------------------------------------------- Init
Init ==
    /\ tasks = <<>>
    /\ task = [n \in TaskNames |-> NoTask]
    /\ execution_order = <<>>
    /\ is_running = FALSE
    /\ start_time = NoTime
    /\ end_time = NoTime
    /\ results = EmptyDict
    /\ max_workers \in 1..MaxWorkers
    /\ pc = [c \in Callers |-> "idle"]
    /\ parallel = [c \in Callers |-> FALSE]
    /\ pos = [c \in Callers |-> <<>>]
    /\ completed_tasks = [c \in Callers |-> {}]
    /\ future_to_task = [c \in Callers |-> {}]
    /\ yielded = [c \in Callers |-> {}]
    /\ work_queue = [c \in Callers |-> <<>>]
    /\ frame = [c \in Callers |-> [n \in TaskNames |-> NoFrame]]
    /\ raising = [c \in Callers |-> None]
    /\ ret = [c \in Callers |-> NoRet]
    /\ snap = [c \in Callers |-> NoSnap]
    /\ calls = 0
    /\ invocations = [n \in TaskNames |-> 0]
    /\ fresh = TRUE

\* ---------------------------------------------------------- registration
\* A call of a public method: the callers make at most MaxCalls of them.
Counted == calls < MaxCalls /\ calls' = calls + 1

\* add_task without the test of the name: the new Task replaces the
\* registered one.
add_task_overwriting(c, name, dependencies, retry_count) ==
    /\ pc[c] = "idle"
    /\ Counted
    /\ UNCHANGED snap
    /\ pc' = [pc EXCEPT ![c] = "done"]
    /\ tasks' = IF name \in Registered THEN tasks ELSE Append(tasks, name)
    /\ task' = [task EXCEPT ![name] = NewTask(dependencies, retry_count)]
    /\ ret' = [ret EXCEPT ![c] = RetTask("add_task", "ok", name)]
    /\ UNCHANGED <<execution_order, is_running, start_time, end_time, results,
                   max_workers, parallel, pos, completed_tasks,
                   future_to_task, yielded, work_queue, frame, raising,
                   invocations, fresh>>

\* Orquestrador.add_task
add_task(c, name, dependencies, retry_count) ==
    /\ pc[c] = "idle"
    /\ Counted
    /\ UNCHANGED snap
    /\ pc' = [pc EXCEPT ![c] = "done"]
    /\ IF name \in Registered
       THEN /\ ret' = [ret EXCEPT ![c] = RetTask("add_task", "duplicate", name)]
            /\ UNCHANGED <<tasks, task>>
       ELSE /\ tasks' = Append(tasks, name)
            /\ task' = [task EXCEPT ![name] = NewTask(dependencies, retry_count)]
            /\ ret' = [ret EXCEPT ![c] = RetTask("add_task", "ok", name)]
    /\ UNCHANGED <<execution_order, is_running, start_time, end_time, results,
                   max_workers, parallel, pos, completed_tasks,
                   future_to_task, yielded, work_queue, frame, raising,
                   invocations, fresh>>

\* The dict without one key, the order of the other keys kept.
Without(s, name) == SelectSeq(s, LAMBDA x : x # name)

\* The tasks that list name among their dependencies (remove_task's scan).
Dependents(name) ==
    SelectSeq(tasks, LAMBDA t : name \in Range(task[t].dependencies))

\* Orquestrador.remove_task
remove_task(c, name) ==
    /\ pc[c] = "idle"
    /\ Counted
    /\ UNCHANGED snap
    /\ pc' = [pc EXCEPT ![c] = "done"]
    /\ IF name \notin Registered
       THEN /\ ret' = [ret EXCEPT ![c] = RetTask("remove_task", "not_found", name)]
            /\ UNCHANGED <<tasks, task>>
       ELSE IF Dependents(name) # <<>>
       THEN /\ ret' = [ret EXCEPT ![c] = RetTask("remove_task", "dependents", name)]
            /\ UNCHANGED <<tasks, task>>
       ELSE /\ tasks' = Without(tasks, name)
            /\ task' = [task EXCEPT ![name] = NoTask]
            /\ ret' = [ret EXCEPT ![c] = RetTask("remove_task", "ok", name)]
    /\ UNCHANGED <<execution_order, is_running, start_time, end_time, results,
                   max_workers, parallel, pos, completed_tasks,
                   future_to_task, yielded, work_queue, frame, raising,
                   invocations, fresh>>

\* ------------------------------------------------------ dependency helpers
RECURSIVE Flatten(_)
Flatten(ss) == IF ss = <<>> THEN <<>> ELSE Head(ss) \o Flatten(Tail(ss))

\* utils.validate_dependencies: one error per task and listed dependency that
\* is not a key of the dict, in iteration order.  An error is kept as the
\* pair <<task_name, dep>> its message is formatted from.
validate_dependencies(ts, tk) ==
    LET bad(t) == SelectSeq([i \in 1..Len(tk[t].dependencies) |->
                                <<t, tk[t].dependencies[i]>>],
                            LAMBDA e : e[2] \notin Range(ts))
    IN  Flatten([i \in 1..Len(ts) |-> bad(ts[i])])

\* topological_sort, first loop: in_degree[task_name] += 1 per listed dependency.
InDegree(ts, tk) == [n \in Range(ts) |-> Len(tk[n].dependencies)]

\* topological_sort, first loop: graph[dep].append(task_name), tasks in dict
\* order, once per occurrence of dep in the task's list.
Graph(ts, tk) ==
    [d \in Range(ts) |->
        Flatten([i \in 1..Len(ts) |->
            LET t == ts[i]
            IN  [j \in 1..Len(SelectSeq(tk[t].dependencies, LAMBDA x : x = d))
                    |-> t]])]

\* Relax with the test of the in-degree left out: every neighbour is queued.
RECURSIVE RelaxWithoutTest(_, _, _)
RelaxWithoutTest(neighbours, in_degree, queue) ==
    IF neighbours = <<>> THEN [in_degree |-> in_degree, queue |-> queue]
    ELSE LET nb == Head(neighbours)
             deg == [in_degree EXCEPT ![nb] = in_degree[nb] - 1]
         IN  RelaxWithoutTest(Tail(neighbours), deg, Append(queue, nb))

\* topological_sort, the for loop over graph[current]: decrement the in-degree
\* of each neighbour and append it to the queue when it reaches zero.
RECURSIVE Relax(_, _, _)
Relax(neighbours, in_degree, queue) ==
    IF neighbours = <<>> THEN [in_degree |-> in_degree, queue |-> queue]
    ELSE LET nb == Head(neighbours)
             deg == [in_degree EXCEPT ![nb] = in_degree[nb] - 1]
         IN  Relax(Tail(neighbours), deg,
                   IF deg[nb] = 0 THEN Append(queue, nb) ELSE queue)

\* Kahn with the queue read from its end (queue.pop() in place of queue.pop(0)).
RECURSIVE KahnLastFirst(_, _, _, _)
KahnLastFirst(queue, result, in_degree, graph) ==
    IF queue = <<>> THEN result
    ELSE LET current == queue[Len(queue)]
             r == Relax(graph[current], in_degree,
                        SubSeq(queue, 1, Len(queue) - 1))
         IN  KahnLastFirst(r.queue, Append(result, current), r.in_degree, graph)

\* topological_sort, the while loop: queue.pop(0), result.append(current).
RECURSIVE Kahn(_, _, _, _)
Kahn(queue, result, in_degree, graph) ==
    IF queue = <<>> THEN result
    ELSE LET current == Head(queue)
             r == Relax(graph[current], in_degree, Tail(queue))
         IN  Kahn(r.queue, Append(result, current), r.in_degree, graph)

\* topological_sort with the comparison of the lengths left out.
topological_sort_unchecked(ts, tk) ==
    LET in_degree == InDegree(ts, tk)
        queue == SelectSeq(ts, LAMBDA t : in_degree[t] = 0)
    IN  [ok |-> TRUE, order |-> Kahn(queue, <<>>, in_degree, Graph(ts, tk))]

\* utils.topological_sort on a dict whose dependencies are all keys: the order,
\* or the ValueError raised when the result is shorter than the dict.
topological_sort(ts, tk) ==
    LET in_degree == InDegree(ts, tk)
        queue == SelectSeq(ts, LAMBDA t : in_degree[t] = 0)
        result == Kahn(queue, <<>>, in_degree, Graph(ts, tk))
    IN  IF Len(result) # Len(ts)
        THEN [ok |-> FALSE, order |-> <<>>]
        ELSE [ok |-> TRUE, order |-> result]

\* Plan with the call of validate left out.
PlanUnvalidated(ts, tk) ==
    LET s == topological_sort(ts, tk)
    IN  IF s.ok THEN [err |-> "ok", order |-> s.order]
                ELSE [err |-> "cyclic", order |-> <<>>]

\* Orquestrador.plan_execution as a function of the dict: the error it raises,
\* or the order it stores and returns.
Plan(ts, tk) ==
    IF validate_dependencies(ts, tk) # <<>>
    THEN [err |-> "validation", order |-> <<>>]
    ELSE LET s == topological_sort(ts, tk)
         IN  IF s.ok THEN [err |-> "ok", order |-> s.order]
                     ELSE [err |-> "cyclic", order |-> <<>>]

\* Orquestrador.plan_execution called by a caller
plan_execution(c) ==
    /\ pc[c] = "idle"
    /\ Counted
    /\ UNCHANGED snap
    /\ pc' = [pc EXCEPT ![c] = "done"]
    /\ LET p == Plan(tasks, task)
       IN  /\ ret' = [ret EXCEPT ![c] = Ret("plan_execution", p.err)]
           /\ execution_order' = IF p.err = "ok" THEN p.order ELSE execution_order
    /\ UNCHANGED <<tasks, task, is_running, start_time, end_time, results,
                   max_workers, parallel, pos, completed_tasks,
                   future_to_task, yielded, work_queue, frame, raising,
                   history>>

\* Orquestrador.validate
validate(c) ==
    /\ pc[c] = "idle"
    /\ Counted
    /\ UNCHANGED snap
    /\ pc' = [pc EXCEPT ![c] = "done"]
    /\ ret' = [ret EXCEPT ![c] =
                  RetValue("validate", validate_dependencies(tasks, task))]
    /\ UNCHANGED <<orch, parallel, pos, completed_tasks, future_to_task,
                   yielded, work_queue, frame, raising, history>>

\* ------------------------------------------------------------------- run
\* Every registered task is as Task.__init__ or Task.reset left it.
Untouched ==
    \A n \in Registered : task[n].status = "pending" /\ task[n].attempts = 0

\* Orquestrador.run, the test of is_running
run_check(c, par) ==
    /\ pc[c] = "idle"
    /\ Counted
    /\ UNCHANGED snap
    /\ IF is_running
       THEN /\ ret' = [ret EXCEPT ![c] = Ret("run", "already_running")]
            /\ pc' = [pc EXCEPT ![c] = "done"]
            /\ UNCHANGED parallel
       ELSE /\ pc' = [pc EXCEPT ![c] = "enter"]
            /\ parallel' = [parallel EXCEPT ![c] = par]
            /\ UNCHANGED ret
    /\ UNCHANGED <<orch, pos, completed_tasks, future_to_task, yielded,
                   work_queue, frame, raising, history>>

\* Orquestrador.run, from is_running = True to results = {}
run_enter(c) ==
    /\ UNCHANGED <<calls, snap>>
    /\ pc[c] = "enter"
    /\ is_running' = TRUE
    /\ start_time' = Now
    /\ results' = EmptyDict
    /\ pc' = [pc EXCEPT ![c] = "plan"]
    /\ invocations' = [n \in TaskNames |-> 0]
    /\ fresh' = Untouched
    /\ UNCHANGED <<tasks, task, execution_order, end_time, max_workers,
                   parallel, pos, completed_tasks, future_to_task, yielded,
                   work_queue, frame, raising, ret>>

\* RunRaises without the finally clause: is_running stays as it is.
RunRaisesKeepingFlag(c, r) ==
    /\ pc' = [pc EXCEPT ![c] = "done"]
    /\ ret' = [ret EXCEPT ![c] = r]
    /\ pos' = [pos EXCEPT ![c] = <<>>]
    /\ completed_tasks' = [completed_tasks EXCEPT ![c] = {}]
    /\ future_to_task' = [future_to_task EXCEPT ![c] = {}]
    /\ yielded' = [yielded EXCEPT ![c] = {}]
    /\ frame' = [frame EXCEPT ![c] = [n \in TaskNames |-> NoFrame]]
    /\ raising' = [raising EXCEPT ![c] = None]
    /\ UNCHANGED <<tasks, task, execution_order, is_running, start_time,
                   end_time, results, max_workers, parallel, work_queue,
                   invocations, fresh>>

\* RunRaises marking the tasks the run has not started as skipped.
RunRaisesSkipping(c, r) ==
    /\ is_running' = FALSE
    /\ pc' = [pc EXCEPT ![c] = "done"]
    /\ ret' = [ret EXCEPT ![c] = r]
    /\ pos' = [pos EXCEPT ![c] = <<>>]
    /\ completed_tasks' = [completed_tasks EXCEPT ![c] = {}]
    /\ future_to_task' = [future_to_task EXCEPT ![c] = {}]
    /\ yielded' = [yielded EXCEPT ![c] = {}]
    /\ frame' = [frame EXCEPT ![c] = [n \in TaskNames |-> NoFrame]]
    /\ raising' = [raising EXCEPT ![c] = None]
    /\ task' = [n \in TaskNames |->
                   IF n \in Registered /\ invocations[n] = 0
                   THEN [task[n] EXCEPT !.status = "skipped"]
                   ELSE task[n]]
    /\ UNCHANGED <<tasks, execution_order, start_time, end_time, results,
                   max_workers, parallel, work_queue, invocations, fresh>>

\* RunRaises with end_time stamped on the way out (the assignment moved into
\* the finally clause).
RunRaisesStampingEnd(c, r) ==
    /\ end_time' = Now
    /\ is_running' = FALSE
    /\ pc' = [pc EXCEPT ![c] = "done"]
    /\ ret' = [ret EXCEPT ![c] = r]
    /\ pos' = [pos EXCEPT ![c] = <<>>]
    /\ completed_tasks' = [completed_tasks EXCEPT ![c] = {}]
    /\ future_to_task' = [future_to_task EXCEPT ![c] = {}]
    /\ yielded' = [yielded EXCEPT ![c] = {}]
    /\ frame' = [frame EXCEPT ![c] = [n \in TaskNames |-> NoFrame]]
    /\ raising' = [raising EXCEPT ![c] = None]
    /\ UNCHANGED <<tasks, task, execution_order, start_time, results,
                   max_workers, parallel, work_queue, invocations, fresh>>

\* Orquestrador.run, except/finally: the exception leaves run(), the
\* activation's locals die, is_running = False.
RunRaises(c, r) ==
    /\ is_running' = FALSE
    /\ pc' = [pc EXCEPT ![c] = "done"]
    /\ ret' = [ret EXCEPT ![c] = r]
    /\ pos' = [pos EXCEPT ![c] = <<>>]
    /\ completed_tasks' = [completed_tasks EXCEPT ![c] = {}]
    /\ future_to_task' = [future_to_task EXCEPT ![c] = {}]
    /\ yielded' = [yielded EXCEPT ![c] = {}]
    /\ frame' = [frame EXCEPT ![c] = [n \in TaskNames |-> NoFrame]]
    /\ raising' = [raising EXCEPT ![c] = None]
    /\ UNCHANGED <<tasks, task, execution_order, start_time, end_time, results,
                   max_workers, parallel, work_queue, invocations, fresh>>

\* Orquestrador.run, end_time = now() ... return self.results, then finally.
\* The subtraction end_time - start_time raises a TypeError when a reset()
\* beside the run has set start_time to None.
RunReturns(c) ==
    /\ end_time' = Now
    /\ is_running' = FALSE
    /\ pc' = [pc EXCEPT ![c] = "done"]
    /\ ret' = [ret EXCEPT ![c] =
                  IF start_time = NoTime THEN Ret("run", "type_error")
                                         ELSE Ret("run", "ok")]
    /\ pos' = [pos EXCEPT ![c] = <<>>]
    /\ completed_tasks' = [completed_tasks EXCEPT ![c] = {}]
    /\ future_to_task' = [future_to_task EXCEPT ![c] = {}]
    /\ yielded' = [yielded EXCEPT ![c] = {}]
    /\ frame' = [frame EXCEPT ![c] = [n \in TaskNames |-> NoFrame]]
    /\ raising' = [raising EXCEPT ![c] = None]
    /\ UNCHANGED <<tasks, task, execution_order, start_time, results,
                   max_workers, parallel, work_queue, invocations, fresh>>

\* Orquestrador.run, self.plan_execution() and the choice of the mode
run_plan(c) ==
    /\ UNCHANGED <<calls, snap>>
    /\ pc[c] = "plan"
    /\ LET p == Plan(tasks, task)
       IN  IF p.err # "ok"
           THEN RunRaises(c, Ret("run", p.err))
           ELSE /\ execution_order' = p.order
                /\ pc' = [pc EXCEPT ![c] = IF parallel[c] THEN "par_loop"
                                                          ELSE "seq_loop"]
                /\ pos' = [pos EXCEPT ![c] = IF parallel[c] THEN <<>> ELSE p.order]
                /\ UNCHANGED <<tasks, task, is_running, start_time, end_time,
                               results, max_workers, parallel, completed_tasks,
                               future_to_task, yielded, work_queue, frame,
                               raising, ret, history>>

\* ---------------------------------------------------------- Task.execute
\* Task.execute up to the call of self.function
ExecuteCall(t) ==
    [t EXCEPT !.status = "running", !.start_time = Stamp,
              !.attempts = t.attempts + 1]

\* Task.execute when self.function returned v
ExecuteReturn(t, v) ==
    [t EXCEPT !.result = v, !.status = "completed", !.end_time = Stamp]

\* Task.execute when self.function raised
ExecuteRaise(t) ==
    [t EXCEPT !.error = "error", !.status = "failed", !.end_time = Stamp]

\* ------------------------------------------------------- _execute_task
\* _execute_task: max_attempts = task.retry_count + 1
MaxAttempts(n) == task[n].retry_count + 1

\* _execute_task enters task.execute() with its local counter at k:
\* the first attempt (k = 0) or a retry.
BeginAttempt(c, n, k) ==
    /\ task' = [task EXCEPT ![n] = ExecuteCall(task[n])]
    /\ frame' = [frame EXCEPT ![c][n] = [phase |-> "running", attempts |-> k]]
    /\ invocations' = [invocations EXCEPT ![n] = invocations[n] + 1]

\* The task's function returns: task.execute() completes the task.
function_returns(c, n) ==
    /\ UNCHANGED <<calls, snap>>
    /\ frame[c][n].phase = "running"
    /\ task' = [task EXCEPT ![n] = ExecuteReturn(task[n], WorkValue(n))]
    /\ frame' = [frame EXCEPT ![c][n].phase = "returned"]
    /\ UNCHANGED <<tasks, execution_order, is_running, start_time, end_time,
                   results, max_workers, pc, parallel, pos, completed_tasks,
                   future_to_task, yielded, work_queue, raising, ret, history>>

\* self.results[task.name] = result; return result
StoreResult(r, n, v) == [x \in DOMAIN r \cup {n} |-> IF x = n THEN v ELSE r[x]]

store_result(c, n) ==
    /\ UNCHANGED <<calls, snap>>
    /\ frame[c][n].phase = "returned"
    /\ results' = StoreResult(results, n, WorkValue(n))
    /\ frame' = [frame EXCEPT ![c][n].phase = "done_ok"]
    /\ UNCHANGED <<tasks, task, execution_order, is_running, start_time,
                   end_time, max_workers, pc, parallel, pos, completed_tasks,
                   future_to_task, yielded, work_queue, raising, ret, history>>

\* The task's function raises: task.execute() marks the task failed and
\* re-raises into _execute_task.
function_raises(c, n) ==
    /\ UNCHANGED <<calls, snap>>
    /\ frame[c][n].phase = "running"
    /\ task' = [task EXCEPT ![n] = ExecuteRaise(task[n])]
    /\ frame' = [frame EXCEPT ![c][n].phase = "caught"]
    /\ UNCHANGED <<tasks, execution_order, is_running, start_time, end_time,
                   results, max_workers, pc, parallel, pos, completed_tasks,
                   future_to_task, yielded, work_queue, raising, ret, history>>

\* AttemptsUsedUp with > for >=: one attempt more than max_attempts.
AttemptsUsedUpLate(attempts, n) == attempts > MaxAttempts(n)

\* _execute_task, the except clause: if attempts >= max_attempts.
AttemptsUsedUp(attempts, n) == attempts >= MaxAttempts(n)

\* What the except clause does to the task before the next attempt.
BeforeRetry(t) == TaskReset(t)

\* _execute_task, the except clause: attempts += 1, then raise when the
\* attempts are used up, else task.reset() and sleep.
handle_exception(c, n) ==
    /\ UNCHANGED <<calls, snap>>
    /\ frame[c][n].phase = "caught"
    /\ LET attempts == frame[c][n].attempts + 1
       IN  IF AttemptsUsedUp(attempts, n)
           THEN /\ frame' = [frame EXCEPT ![c][n] =
                               [phase |-> "done_err", attempts |-> attempts]]
                /\ UNCHANGED task
           ELSE /\ frame' = [frame EXCEPT ![c][n] =
                               [phase |-> "sleep", attempts |-> attempts]]
                /\ task' = [task EXCEPT ![n] = BeforeRetry(task[n])]
    /\ UNCHANGED <<tasks, execution_order, is_running, start_time, end_time,
                   results, max_workers, pc, parallel, pos, completed_tasks,
                   future_to_task, yielded, work_queue, raising, ret, history>>

\* _execute_task, after time.sleep(1): the next pass of the while loop.
retry(c, n) ==
    /\ UNCHANGED <<calls, snap>>
    /\ frame[c][n].phase = "sleep"
    /\ BeginAttempt(c, n, frame[c][n].attempts)
    /\ UNCHANGED <<tasks, execution_order, is_running, start_time, end_time,
                   results, max_workers, pc, parallel, pos, completed_tasks,
                   future_to_task, yielded, work_queue, raising, ret,
                   fresh>>

\* ------------------------------------------------------ _run_sequential
\* run_sequential_next taking the last task of the remaining order first.
run_sequential_next_last_first(c) ==
    /\ UNCHANGED <<calls, snap>>
    /\ pc[c] = "seq_loop"
    /\ IF pos[c] = <<>>
       THEN RunReturns(c)
       ELSE LET n == pos[c][Len(pos[c])]
            IN  /\ BeginAttempt(c, n, 0)
                /\ pc' = [pc EXCEPT ![c] = "seq_exec"]
                /\ UNCHANGED <<tasks, execution_order, is_running, start_time,
                               end_time, results, max_workers, parallel, pos,
                               completed_tasks, future_to_task, yielded,
                               work_queue, raising, ret, fresh>>

\* _run_sequential, the head of the for loop: the next task of the order
\* enters _execute_task, or the loop is over and run() returns.
run_sequential_next(c) ==
    /\ UNCHANGED <<calls, snap>>
    /\ pc[c] = "seq_loop"
    /\ IF pos[c] = <<>>
       THEN RunReturns(c)
       ELSE LET n == Head(pos[c])
            IN  /\ BeginAttempt(c, n, 0)
                /\ pc' = [pc EXCEPT ![c] = "seq_exec"]
                /\ UNCHANGED <<tasks, execution_order, is_running, start_time,
                               end_time, results, max_workers, parallel, pos,
                               completed_tasks, future_to_task, yielded,
                               work_queue, raising, ret, fresh>>

\* run_sequential_after with the exception of _execute_task swallowed: the
\* for loop goes on to the next task.
run_sequential_after_swallowing(c) ==
    /\ UNCHANGED <<calls, snap>>
    /\ pc[c] = "seq_exec"
    /\ LET n == Head(pos[c])
       IN  /\ frame[c][n].phase \in {"done_ok", "done_err"}
           /\ pos' = [pos EXCEPT ![c] = Tail(pos[c])]
           /\ pc' = [pc EXCEPT ![c] = "seq_loop"]
           /\ frame' = [frame EXCEPT ![c][n] = NoFrame]
           /\ UNCHANGED <<orch, parallel, completed_tasks, future_to_task,
                          yielded, work_queue, raising, ret, history>>

\* _run_sequential: _execute_task returned, or its exception leaves run().
run_sequential_after(c) ==
    /\ UNCHANGED <<calls, snap>>
    /\ pc[c] = "seq_exec"
    /\ LET n == Head(pos[c])
       IN  \/ /\ frame[c][n].phase = "done_ok"
              /\ pos' = [pos EXCEPT ![c] = Tail(pos[c])]
              /\ pc' = [pc EXCEPT ![c] = "seq_loop"]
              /\ frame' = [frame EXCEPT ![c][n] = NoFrame]
              /\ UNCHANGED <<orch, parallel, completed_tasks, future_to_task,
                             yielded, work_queue, raising, ret, history>>
           \/ /\ frame[c][n].phase = "done_err"
              /\ RunRaises(c, RetTask("run", "task_failed", n))

\* -------------------------------------------------------- _run_parallel
\* ReadyTasks taking only tasks whose status is PENDING.
ReadyTasksOfPending(order, done) ==
    SelectSeq(order, LAMBDA n :
        /\ n \notin done
        /\ task[n].status = "pending"
        /\ \A dep \in Range(task[n].dependencies) : dep \in done)

\* ReadyTasks with the test of completed_tasks left out.
ReadyTasksIgnoringCompleted(order, done) ==
    SelectSeq(order, LAMBDA n :
        \A dep \in Range(task[n].dependencies) : dep \in done)

\* ReadyTasks with the test of the dependencies left out.
ReadyTasksIgnoringDependencies(order, done) ==
    SelectSeq(order, LAMBDA n : n \notin done)

\* _run_parallel, the scan of execution_order for tasks that are not in
\* completed_tasks and whose dependencies all are.
ReadyTasks(order, done) ==
    SelectSeq(order, LAMBDA n :
        /\ n \notin done
        /\ \A dep \in Range(task[n].dependencies) : dep \in done)

\* The frames of the tasks a caller's batch submits.
Submitted(f, ready) ==
    [n \in TaskNames |-> IF n \in Range(ready)
                         THEN [phase |-> "queued", attempts |-> 0]
                         ELSE f[n]]

\* LoopContinues leaving the loop one task early.
LoopContinuesShort(c) == Cardinality(completed_tasks[c]) + 1 < Len(tasks)

\* _run_parallel, the condition of the while loop.
LoopContinues(c) == Cardinality(completed_tasks[c]) < Len(tasks)

\* _run_parallel, one pass of the while loop up to as_completed: leave the
\* loop when every task is in completed_tasks or none is ready (run() then
\* returns: the pool is idle), else submit every ready task.
run_parallel_submit(c) ==
    /\ UNCHANGED <<calls, snap>>
    /\ pc[c] = "par_loop"
    /\ LET ready_tasks == ReadyTasks(execution_order, completed_tasks[c])
       IN  IF ~LoopContinues(c) \/ ready_tasks = <<>>
           THEN RunReturns(c)
           ELSE /\ work_queue' = [work_queue EXCEPT ![c] = @ \o ready_tasks]
                /\ frame' = [frame EXCEPT ![c] = Submitted(@, ready_tasks)]
                /\ future_to_task' = [future_to_task EXCEPT ![c] = Range(ready_tasks)]
                /\ yielded' = [yielded EXCEPT ![c] = {}]
                /\ pc' = [pc EXCEPT ![c] = "par_wait"]
                /\ UNCHANGED <<orch, parallel, pos, completed_tasks, raising,
                               ret, history>>

\* Busy with the backoff left out: a thread that sleeps between two attempts
\* counts as free.
BusyWithoutBackoff(c) ==
    {n \in TaskNames : frame[c][n].phase \in {"running", "returned", "caught"}}

\* Busy with the threads that have finished their work item counted too:
\* a thread of the pool serves one work item only.
BusyNeverFreed(c) == {n \in TaskNames : frame[c][n].phase \notin {"none", "queued"}}

\* The tasks whose _execute_task a pool thread of the caller is running.
Busy(c) == {n \in TaskNames :
                frame[c][n].phase \in {"running", "returned", "caught", "sleep"}}

\* ThreadPoolExecutor: a thread of the pool, of which there are at most
\* max_workers, takes the oldest work item and calls _execute_task.
worker_take(c) ==
    /\ UNCHANGED <<calls, snap>>
    /\ work_queue[c] # <<>>
    /\ Cardinality(Busy(c)) < max_workers
    /\ BeginAttempt(c, Head(work_queue[c]), 0)
    /\ work_queue' = [work_queue EXCEPT ![c] = Tail(@)]
    /\ UNCHANGED <<tasks, execution_order, is_running, start_time, end_time,
                   results, max_workers, pc, parallel, pos, completed_tasks,
                   future_to_task, yielded, raising, ret, fresh>>

\* as_completed left after the first finished future: the while loop comes
\* round as soon as one task of the batch has ended.
as_completed_first_only(c, n) ==
    /\ UNCHANGED <<calls, snap>>
    /\ pc[c] = "par_wait"
    /\ n \in future_to_task[c] \ yielded[c]
    /\ frame[c][n].phase \in {"done_ok", "done_err"}
    /\ completed_tasks' = [completed_tasks EXCEPT ![c] = @ \cup {n}]
    /\ yielded' = [yielded EXCEPT ![c] = @ \cup {n}]
    /\ IF frame[c][n].phase = "done_err"
       THEN /\ pc' = [pc EXCEPT ![c] = "par_shutdown"]
            /\ raising' = [raising EXCEPT ![c] = n]
       ELSE /\ pc' = [pc EXCEPT ![c] = "par_loop"]
            /\ UNCHANGED raising
    /\ UNCHANGED <<orch, parallel, pos, future_to_task, work_queue, frame,
                   ret, history>>

\* _run_parallel, one pass of the for loop over as_completed: a finished
\* future is handed out, its task joins completed_tasks, future.result()
\* re-raises the task's exception.
as_completed(c, n) ==
    /\ UNCHANGED <<calls, snap>>
    /\ pc[c] = "par_wait"
    /\ n \in future_to_task[c] \ yielded[c]
    /\ frame[c][n].phase \in {"done_ok", "done_err"}
    /\ completed_tasks' = [completed_tasks EXCEPT ![c] = @ \cup {n}]
    /\ yielded' = [yielded EXCEPT ![c] = @ \cup {n}]
    /\ IF frame[c][n].phase = "done_err"
       THEN /\ pc' = [pc EXCEPT ![c] = "par_shutdown"]
            /\ raising' = [raising EXCEPT ![c] = n]
       ELSE /\ pc' = [pc EXCEPT ![c] =
                         IF yielded'[c] = future_to_task[c] THEN "par_loop"
                                                            ELSE "par_wait"]
            /\ UNCHANGED raising
    /\ UNCHANGED <<orch, parallel, pos, future_to_task, work_queue, frame,
                   ret, history>>

\* executor_shutdown that does not wait (shutdown(wait=False)): the exception
\* leaves run() while work items are queued or under way.
executor_shutdown_without_wait(c) ==
    /\ UNCHANGED <<calls, snap>>
    /\ pc[c] = "par_shutdown"
    /\ RunRaises(c, RetTask("run", "task_failed", raising[c]))

\* The exception leaves the with block: ThreadPoolExecutor.__exit__ is
\* shutdown(wait=True), which returns once the queue is drained and every
\* pool thread has ended; then the exception leaves run().
executor_shutdown(c) ==
    /\ UNCHANGED <<calls, snap>>
    /\ pc[c] = "par_shutdown"
    /\ work_queue[c] = <<>>
    /\ Busy(c) = {}
    /\ RunRaises(c, RetTask("run", "task_failed", raising[c]))

\* ----------------------------------------------------------------- reset
\* Orquestrador.reset, the test of is_running
reset_check(c) ==
    /\ pc[c] = "idle"
    /\ Counted
    /\ fresh' = Untouched
    /\ IF is_running
       THEN /\ ret' = [ret EXCEPT ![c] = Ret("reset", "cannot_reset")]
            /\ pc' = [pc EXCEPT ![c] = "done"]
       ELSE /\ pc' = [pc EXCEPT ![c] = "reset"]
            /\ UNCHANGED ret
    /\ UNCHANGED <<orch, parallel, pos, completed_tasks, future_to_task,
                   yielded, work_queue, frame, raising, invocations, snap>>

\* Orquestrador.reset, from the loop over the tasks to the end
reset_apply(c) ==
    /\ UNCHANGED <<calls, snap>>
    /\ pc[c] = "reset"
    /\ pc' = [pc EXCEPT ![c] = "done"]
    /\ task' = [n \in TaskNames |->
                   IF n \in Registered THEN TaskReset(task[n]) ELSE task[n]]
    /\ results' = EmptyDict
    /\ start_time' = NoTime
    /\ end_time' = NoTime
    /\ execution_order' = <<>>
    /\ ret' = [ret EXCEPT ![c] = Ret("reset", "ok")]
    /\ UNCHANGED <<tasks, is_running, max_workers, parallel, pos,
                   completed_tasks, future_to_task, yielded, work_queue, frame,
                   raising, history>>

\* ----------------------------------------------------------- get_status
\* Orquestrador.get_status is entered
get_status_call(c) ==
    /\ pc[c] = "idle"
    /\ Counted
    /\ pc' = [pc EXCEPT ![c] = "gs_tasks"]
    /\ snap' = [snap EXCEPT ![c] =
                   [NoSnap EXCEPT !.i = 1,
                                  !.quiet = \A d \in Callers \ {c} :
                                               pc[d] \in {"idle", "done"},
                                  !.calls = calls + 1]]
    /\ UNCHANGED <<orch, parallel, pos, completed_tasks, future_to_task,
                   yielded, work_queue, frame, raising, ret, history>>

\* get_status, one pass of the for loop that builds task_status; after the
\* loop the dict is begun: is_running and len(self.tasks) are read.
get_status_tasks(c) ==
    /\ UNCHANGED calls
    /\ pc[c] = "gs_tasks"
    /\ IF snap[c].i <= Len(tasks)
       THEN LET name == tasks[snap[c].i]
            IN  /\ snap' = [snap EXCEPT
                                ![c].task_status =
                                    Append(@, <<name, task[name].status>>),
                                ![c].i = @ + 1]
                /\ UNCHANGED pc
       ELSE /\ snap' = [snap EXCEPT ![c].is_running = is_running,
                                    ![c].total_tasks = Len(tasks),
                                    ![c].i = 1]
            /\ pc' = [pc EXCEPT ![c] = "gs_completed"]
    /\ UNCHANGED <<orch, parallel, pos, completed_tasks, future_to_task,
                   yielded, work_queue, frame, raising, ret, history>>

\* get_status, one pass of the comprehension that counts the COMPLETED tasks
get_status_completed(c) ==
    /\ UNCHANGED calls
    /\ pc[c] = "gs_completed"
    /\ IF snap[c].i <= Len(tasks)
       THEN /\ snap' = [snap EXCEPT
                            ![c].completed_tasks =
                                IF task[tasks[snap[c].i]].status = "completed"
                                THEN @ + 1 ELSE @,
                            ![c].i = @ + 1]
            /\ UNCHANGED pc
       ELSE /\ snap' = [snap EXCEPT ![c].i = 1]
            /\ pc' = [pc EXCEPT ![c] = "gs_failed"]
    /\ UNCHANGED <<orch, parallel, pos, completed_tasks, future_to_task,
                   yielded, work_queue, frame, raising, ret, history>>

\* StatusDict with the two counts exchanged.
StatusDictSwapped(sn) ==
    [is_running |-> sn.is_running, total_tasks |-> sn.total_tasks,
     completed_tasks |-> sn.failed_tasks, failed_tasks |-> sn.completed_tasks,
     tasks |-> sn.task_status]

\* The dict get_status returns, of which the model follows the counts,
\* is_running and the status of each task.
StatusDict(sn) ==
    [is_running |-> sn.is_running, total_tasks |-> sn.total_tasks,
     completed_tasks |-> sn.completed_tasks, failed_tasks |-> sn.failed_tasks,
     tasks |-> sn.task_status]

\* get_status, one pass of the comprehension that counts the FAILED tasks;
\* after it the dict is returned.
get_status_failed(c) ==
    /\ UNCHANGED calls
    /\ pc[c] = "gs_failed"
    /\ IF snap[c].i <= Len(tasks)
       THEN /\ snap' = [snap EXCEPT
                            ![c].failed_tasks =
                                IF task[tasks[snap[c].i]].status = "failed"
                                THEN @ + 1 ELSE @,
                            ![c].i = @ + 1]
            /\ UNCHANGED <<pc, ret>>
       ELSE /\ snap' = [snap EXCEPT ![c] = NoSnap]
            /\ pc' = [pc EXCEPT ![c] = "done"]
            /\ ret' = [ret EXCEPT ![c] =
                          RetValue("get_status", StatusDict(snap[c]))]
    /\ UNCHANGED <<orch, parallel, pos, completed_tasks, future_to_task,
                   yielded, work_queue, frame, raising, history>>

\* ------------------------------------------------------------------ Next
\* The caller has the value or the exception of its call and is free to
\* make the next one; what was recorded about the call is dropped.
call_returns(c) ==
    /\ UNCHANGED <<calls, snap>>
    /\ pc[c] = "done"
    /\ pc' = [pc EXCEPT ![c] = "idle"]
    /\ ret' = [ret EXCEPT ![c] = NoRet]
    /\ invocations' = [n \in TaskNames |-> 0]
    /\ fresh' = TRUE
    /\ parallel' = [parallel EXCEPT ![c] = FALSE]
    /\ UNCHANGED <<orch, pos, completed_tasks, future_to_task, yielded,
                   work_queue, frame, raising>>

\* The names add_task is called with for a new task: task names are
\* interchangeable, so a new task takes the first name that is free.
NewNames ==
    LET free == SelectSeq(NameList, LAMBDA n : n \notin Registered)
    IN  IF free = <<>> THEN {} ELSE {Head(free)}

\* One thread calls the public methods, one call after the other; in
\* parallel mode the threads of its pool run beside it.
Next ==
    \/ \E name \in NewNames, dependencies \in DepLists, retry_count \in 0..MaxRetry :
          add_task(MainCaller, name, dependencies, retry_count)
    \/ \E name \in Registered : add_task(MainCaller, name, <<>>, 0)
    \/ \E name \in TaskNames : remove_task(MainCaller, name)
    \/ validate(MainCaller)
    \/ plan_execution(MainCaller)
    \/ reset_check(MainCaller)
    \/ reset_apply(MainCaller)
    \/ \E par \in BOOLEAN : run_check(MainCaller, par)
    \/ run_enter(MainCaller)
    \/ run_plan(MainCaller)
    \/ run_sequential_next(MainCaller)
    \/ run_sequential_after(MainCaller)
    \/ run_parallel_submit(MainCaller)
    \/ worker_take(MainCaller)
    \/ \E n \in TaskNames : as_completed(MainCaller, n)
    \/ executor_shutdown(MainCaller)
    \/ \E n \in TaskNames : function_returns(MainCaller, n)
    \/ \E n \in TaskNames : store_result(MainCaller, n)
    \/ \E n \in TaskNames : function_raises(MainCaller, n)
    \/ \E n \in TaskNames : handle_exception(MainCaller, n)
    \/ \E n \in TaskNames : retry(MainCaller, n)
    \/ call_returns(MainCaller)

Spec == Init /\ [][Next]_vars

\* A step of run() after its test of is_running, or of a thread of its pool.
RunStep(c) ==
    \/ run_enter(c)
    \/ run_plan(c)
    \/ run_sequential_next(c)
    \/ run_sequential_after(c)
    \/ run_parallel_submit(c)
    \/ worker_take(c)
    \/ \E n \in TaskNames : as_completed(c, n)
    \/ executor_shutdown(c)
    \/ \E n \in TaskNames : function_returns(c, n)
    \/ \E n \in TaskNames : store_result(c, n)
    \/ \E n \in TaskNames : function_raises(c, n)
    \/ \E n \in TaskNames : handle_exception(c, n)
    \/ \E n \in TaskNames : retry(c, n)

\* The threads are scheduled and a task's function ends, by returning or by
\* raising: while a step of the run is possible, one is taken in the end.
Fairness == WF_vars(RunStep(MainCaller))

\* One thread registers at most MaxLiveTasks tasks and calls run().
NextLive ==
    \/ \E name \in NewNames, dependencies \in DepLists, retry_count \in 0..MaxRetry :
          /\ Len(tasks) < MaxLiveTasks
          /\ add_task(MainCaller, name, dependencies, retry_count)
    \/ \E par \in BOOLEAN : run_check(MainCaller, par)
    \/ run_enter(MainCaller)
    \/ run_plan(MainCaller)
    \/ run_sequential_next(MainCaller)
    \/ run_sequential_after(MainCaller)
    \/ run_parallel_submit(MainCaller)
    \/ worker_take(MainCaller)
    \/ \E n \in TaskNames : as_completed(MainCaller, n)
    \/ executor_shutdown(MainCaller)
    \/ \E n \in TaskNames : function_returns(MainCaller, n)
    \/ \E n \in TaskNames : store_result(MainCaller, n)
    \/ \E n \in TaskNames : function_raises(MainCaller, n)
    \/ \E n \in TaskNames : handle_exception(MainCaller, n)
    \/ \E n \in TaskNames : retry(MainCaller, n)
    \/ call_returns(MainCaller)

SpecLive == Init /\ [][NextLive]_vars /\ Fairness

\* No caller is inside run().
Quiet == \A c \in Callers : pc[c] \in {"idle", "done"}

\* Two threads share the orchestrator: one registers at most MaxConcTasks
\* tasks while the orchestrator is quiet, and both call run().
NextConc ==
    \/ \E name \in NewNames, dependencies \in DepLists, retry_count \in 0..MaxRetry :
          /\ Quiet
          /\ Len(tasks) < MaxConcTasks
          /\ add_task(MainCaller, name, dependencies, retry_count)
    \/ \E c \in Callers, par \in BOOLEAN : run_check(c, par)
    \/ \E c \in Callers : run_enter(c)
    \/ \E c \in Callers : run_plan(c)
    \/ \E c \in Callers : run_sequential_next(c)
    \/ \E c \in Callers : run_sequential_after(c)
    \/ \E c \in Callers : run_parallel_submit(c)
    \/ \E c \in Callers : worker_take(c)
    \/ \E c \in Callers, n \in TaskNames : as_completed(c, n)
    \/ \E c \in Callers : executor_shutdown(c)
    \/ \E c \in Callers, n \in TaskNames : function_returns(c, n)
    \/ \E c \in Callers, n \in TaskNames : store_result(c, n)
    \/ \E c \in Callers, n \in TaskNames : function_raises(c, n)
    \/ \E c \in Callers, n \in TaskNames : handle_exception(c, n)
    \/ \E c \in Callers, n \in TaskNames : retry(c, n)
    \/ \E c \in Callers : call_returns(c)

SpecConc == Init /\ [][NextConc]_vars

\* The thread that calls reset() and get_status() beside the main caller.
Observer == "other"

\* One thread registers at most MaxObsTasks tasks while the orchestrator is
\* quiet and calls run(); a second thread calls reset() and get_status() at
\* any time.
NextObs ==
    \/ \E name \in NewNames, dependencies \in DepLists, retry_count \in 0..MaxRetry :
          /\ Quiet
          /\ Len(tasks) < MaxObsTasks
          /\ add_task(MainCaller, name, dependencies, retry_count)
    \/ \E par \in BOOLEAN : run_check(MainCaller, par)
    \/ run_enter(MainCaller)
    \/ run_plan(MainCaller)
    \/ run_sequential_next(MainCaller)
    \/ run_sequential_after(MainCaller)
    \/ run_parallel_submit(MainCaller)
    \/ worker_take(MainCaller)
    \/ \E n \in TaskNames : as_completed(MainCaller, n)
    \/ executor_shutdown(MainCaller)
    \/ \E n \in TaskNames : function_returns(MainCaller, n)
    \/ \E n \in TaskNames : store_result(MainCaller, n)
    \/ \E n \in TaskNames : function_raises(MainCaller, n)
    \/ \E n \in TaskNames : handle_exception(MainCaller, n)
    \/ \E n \in TaskNames : retry(MainCaller, n)
    \/ reset_check(Observer)
    \/ reset_apply(Observer)
    \/ get_status_call(Observer)
    \/ get_status_tasks(Observer)
    \/ get_status_completed(Observer)
    \/ get_status_failed(Observer)
    \/ \E c \in Callers : call_returns(c)

SpecObs == Init /\ [][NextObs]_vars

\* ---------------------------------------------------- the planner alone
\* The names of the dicts the planner is applied to.
SortNameList == <<"a", "b", "c", "d", "e">>
MaxSortTasks == 4
SortNames == {SortNameList[i] : i \in 1..MaxSortTasks}

\* The dependency lists of those dicts, one order of each list.
SortDepLists ==
    LET ix(n) == CHOOSE i \in 1..Len(SortNameList) : SortNameList[i] = n
    IN  {d \in SeqsUpTo(SortNames, MaxDeps) :
            \A i \in 1..Len(d) - 1 : ix(d[i]) <= ix(d[i + 1])}

\* An orchestrator on which add_task has registered up to MaxSortTasks tasks
\* with any dependency lists, and nothing else has been called.
InitSort ==
    /\ \E k \in 0..MaxSortTasks : tasks = SubSeq(SortNameList, 1, k)
    /\ task \in [SortNames -> {NewTask(d, 0) : d \in SortDepLists}]
    /\ \A n \in SortNames \ Range(tasks) : task[n] = NoTask
    /\ execution_order = <<>>
    /\ is_running = FALSE
    /\ start_time = NoTime
    /\ end_time = NoTime
    /\ results = EmptyDict
    /\ max_workers = 1
    /\ pc = [c \in Callers |-> "idle"]
    /\ parallel = [c \in Callers |-> FALSE]
    /\ pos = [c \in Callers |-> <<>>]
    /\ completed_tasks = [c \in Callers |-> {}]
    /\ future_to_task = [c \in Callers |-> {}]
    /\ yielded = [c \in Callers |-> {}]
    /\ work_queue = [c \in Callers |-> <<>>]
    /\ frame = [c \in Callers |-> [n \in TaskNames |-> NoFrame]]
    /\ raising = [c \in Callers |-> None]
    /\ ret = [c \in Callers |-> NoRet]
    /\ snap = [c \in Callers |-> NoSnap]
    /\ calls = 0
    /\ invocations = [n \in TaskNames |-> 0]
    /\ fresh = TRUE

\* The caller plans the execution of the dict, once or again.
NextSort ==
    \/ plan_execution(MainCaller)
    \/ call_returns(MainCaller)

SpecSort == InitSort /\ [][NextSort]_vars

\* ======================================================================
\* Properties
\* ======================================================================
\* Every listed dependency of every registered task is registered.
DepsRegistered ==
    \A n \in Registered : Range(task[n].dependencies) \subseteq Registered

\* The tasks n depends on, directly or through other tasks, found by
\* following dependency lists for at most k steps.
RECURSIVE Ancestors(_, _)
Ancestors(n, k) ==
    IF k = 0 THEN {}
    ELSE LET direct == Range(task[n].dependencies) \cap Registered
         IN  direct \cup UNION {Ancestors(d, k - 1) : d \in direct}

\* Some registered task depends on itself, directly or through others.
HasCycle == \E n \in Registered : n \in Ancestors(n, Len(tasks))

\* The position of n in the sequence s (0 when absent).
Position(s, n) == IF n \in Range(s) THEN CHOOSE i \in 1..Len(s) : s[i] = n ELSE 0

\* s holds every registered task exactly once, each after its dependencies.
IsDependencyOrder(s) ==
    /\ Len(s) = Len(tasks)
    /\ Range(s) = Registered
    /\ \A n \in Registered : \A d \in Range(task[n].dependencies) :
           Position(s, d) < Position(s, n)

\* The call of op by caller c has just returned or raised.
Done(c, op) == pc[c] = "done" /\ ret[c].op = op

\* C1: a task whose attempt has begun (its status is Running) has every one
\* of its dependencies Completed, in sequential and in parallel mode.
C1_DependenciesCompleted ==
    \A n \in Registered :
        task[n].status = "running" =>
            \A d \in Range(task[n].dependencies) : task[d].status = "completed"

\* C1 witness: in parallel mode a task with two different dependencies is
\* running.
C1_Witness ==
    \E n \in Registered :
        /\ parallel[MainCaller]
        /\ task[n].status = "running"
        /\ Cardinality(Range(task[n].dependencies)) = 2

\* C2: on an acyclic task set whose dependencies are all registered,
\* plan_execution succeeds and the order it returns holds every registered
\* task exactly once, each task after all of its dependencies.
C2_PlanIsDependencyOrder ==
    \A c \in Callers :
        (Done(c, "plan_execution") /\ DepsRegistered /\ ~HasCycle) =>
            /\ ret[c].err = "ok"
            /\ IsDependencyOrder(execution_order)

\* C2 witness: plan_execution has returned the order of three tasks, one of
\* which has two different dependencies.
C2_Witness ==
    /\ Done(MainCaller, "plan_execution")
    /\ ret[MainCaller].err = "ok"
    /\ Len(tasks) = 3
    /\ \E n \in Registered : Cardinality(Range(task[n].dependencies)) = 2

\* C3 as stated: whenever the dependency relation over the registered tasks
\* has a cycle, plan_execution and run fail with the cyclic-dependency error.
C3_CycleAlwaysCyclicError ==
    \A c \in Callers :
        (HasCycle /\ (Done(c, "plan_execution") \/ Done(c, "run"))) =>
            ret[c].err = "cyclic"

\* No attempt of any task has begun since run() was entered.
NothingStarted ==
    /\ \A n \in TaskNames : invocations[n] = 0
    /\ \A c \in Callers, n \in TaskNames : frame[c][n] = NoFrame

\* C3 amended: whenever every listed dependency is registered and the
\* dependency relation has a cycle, plan_execution and run (in both modes)
\* fail with the cyclic-dependency error, run fails before any attempt has
\* begun, and no step of that run changes a task.
C3_CycleCyclicError ==
    /\ [](\A c \in Callers :
            (DepsRegistered /\ HasCycle /\
             (Done(c, "plan_execution") \/ Done(c, "run"))) =>
                /\ ret[c].err = "cyclic"
                /\ Done(c, "run") => NothingStarted)
    /\ [][(is_running /\ DepsRegistered /\ HasCycle) => task' = task]_vars

\* C3 witness: a run in parallel mode has failed on a cycle through two tasks.
C3_Witness ==
    /\ Done(MainCaller, "run")
    /\ parallel[MainCaller]
    /\ ret[MainCaller].err = "cyclic"
    /\ \E n, m \in Registered :
          /\ n # m
          /\ m \in Range(task[n].dependencies)
          /\ n \in Range(task[m].dependencies)

\* The retry loop of n has ended in the activation of caller c.
LoopEnded(c, n) == frame[c][n].phase \in {"done_ok", "done_err"}

\* C4 as stated: when a task's retry loop ends in a run started from fresh
\* tasks, the task's attempts field is the number of times its function was
\* called in the run (retry_count + 1 after a terminal failure), and after a
\* success results holds the returned value.
C4_AttemptsCountInvocations ==
    \A c \in Callers, n \in Registered :
        (fresh /\ LoopEnded(c, n)) =>
            /\ task[n].attempts = invocations[n]
            /\ frame[c][n].phase = "done_err" =>
                   task[n].attempts = task[n].retry_count + 1
            /\ frame[c][n].phase = "done_ok" =>
                   (n \in DOMAIN results /\ results[n] = WorkValue(n))

\* Every one of the retry_count + 1 calls of n's function in this run failed.
Exhausted(n) ==
    /\ task[n].status = "failed"
    /\ invocations[n] = MaxAttempts(n)

\* C5 as stated: a task whose retry_count + 1 calls all failed makes run()
\* fail with that task's failure.
C5_RunFailsWithThatTask ==
    \A c \in Callers, n \in Registered :
        (Done(c, "run") /\ Exhausted(n)) =>
            /\ ret[c].err = "task_failed"
            /\ ret[c].task = n

\* C5 amended: within one run a task's function is called at most
\* retry_count + 1 times and never again after a call succeeded; if all
\* retry_count + 1 calls fail, run() fails with the failure of a task whose
\* calls all failed (that very task in sequential mode; in parallel mode the
\* first such task the coordinator collects) and the task's name is absent
\* from results.
C5_RetryBudget ==
    /\ [](\A n \in Registered : invocations[n] <= MaxAttempts(n))
    /\ [](\A c \in Callers, n \in Registered :
            (Done(c, "run") /\ Exhausted(n)) =>
                /\ ret[c].err = "task_failed"
                /\ ret[c].task \in Registered
                /\ Exhausted(ret[c].task)
                /\ ~parallel[c] => ret[c].task = n
                /\ n \notin DOMAIN results)
    /\ [][\A n \in TaskNames :
            (is_running /\ (\/ n \in DOMAIN results
                            \/ \E c \in Callers : frame[c][n].phase = "returned"))
                => invocations'[n] <= invocations[n]]_vars

\* C5 witness: run() has failed because a task with retry_count 1 failed
\* twice.
C5_Witness ==
    /\ Done(MainCaller, "run")
    /\ ret[MainCaller].err = "task_failed"
    /\ \E n \in Registered :
          /\ ret[MainCaller].task = n
          /\ task[n].retry_count = 1
          /\ invocations[n] = 2

\* C6 as stated: every key of results is a registered task whose status is
\* Completed.
C6_ResultsOnlyCompleted ==
    \A n \in DOMAIN results :
        n \in Registered /\ task[n].status = "completed"

\* Caller c is in a sequential run, or that run has just ended.
InSequentialRun(c) ==
    /\ ~parallel[c]
    /\ \/ pc[c] \in {"seq_loop", "seq_exec"}
       \/ Done(c, "run") /\ ret[c].err \in {"ok", "task_failed"}

\* C8: in sequential mode a terminal failure ends the run at once (the for
\* loop takes no further task and run() fails with that task's failure), and
\* in a run started from fresh tasks every task after the failed one in the
\* planned order is still Pending with attempts 0.
C8_SequentialFailFast ==
    \A c \in Callers, n \in Registered :
        (InSequentialRun(c) /\ Exhausted(n)) =>
            /\ pc[c] # "seq_loop"
            /\ Done(c, "run") => (ret[c].err = "task_failed" /\ ret[c].task = n)
            /\ \A m \in Registered :
                  Position(execution_order, m) > Position(execution_order, n) =>
                      /\ invocations[m] = 0
                      /\ fresh => (task[m].status = "pending" /\ task[m].attempts = 0)

\* C8 witness: a sequential run from fresh tasks has failed on a task that
\* two tasks follow in the planned order.
C8_Witness ==
    /\ Done(MainCaller, "run")
    /\ ~parallel[MainCaller]
    /\ fresh
    /\ ret[MainCaller].err = "task_failed"
    /\ Len(execution_order) = 3
    /\ Position(execution_order, ret[MainCaller].task) = 1

\* C9 as stated: in parallel mode, once a task has failed terminally, no
\* task that has not begun its first attempt begins one.
C9_NoStartAfterTerminalFailure ==
    [][\A c \in Callers, n \in TaskNames :
         (/\ parallel[c]
          /\ \E m \in TaskNames : frame[c][m].phase = "done_err"
          /\ frame[c][n].phase = "queued")
             => frame'[c][n].phase = "queued"]_vars

\* C10: a run that returns, in sequential mode or in parallel mode with any
\* max_workers, returns the same mapping: one entry per registered task,
\* holding the value that task's function returns.
C10_SameResultsInBothModes ==
    \A c \in Callers :
        (Done(c, "run") /\ ret[c].err = "ok") =>
            results = [n \in Registered |-> WorkValue(n)]

\* C10 witness: a parallel run of three tasks on a pool of one thread has
\* returned.
C10_Witness ==
    /\ Done(MainCaller, "run")
    /\ ret[MainCaller].err = "ok"
    /\ parallel[MainCaller]
    /\ max_workers = 1
    /\ Len(tasks) = 3

\* The values of pc inside the body of run(), after is_running was set.
RunBody == {"plan", "seq_loop", "seq_exec", "par_loop", "par_wait", "par_shutdown"}

\* C7 as stated: of the threads calling run() on one orchestrator, at most
\* one is inside the body of run() at any time.
C7_OneRunAtATime ==
    Cardinality({c \in Callers : pc[c] \in RunBody}) <= 1

\* Caller c takes the step in which its call of op returns or raises.
Returns(c, op) == pc[c] # "done" /\ pc'[c] = "done" /\ ret'[c].op = op

\* C11: reset() called while no run is in progress succeeds and leaves every
\* registered task Pending with no start time, end time, result or error and
\* attempts 0, results empty and the run's start and end time cleared; the
\* registered tasks, their dependencies and retry counts are as before.
C11_ResetClears ==
    [][\A c \in Callers :
         (Returns(c, "reset") /\ ~is_running) =>
            /\ ret'[c].err = "ok"
            /\ \A n \in Registered :
                  task'[n] = NewTask(task[n].dependencies, task[n].retry_count)
            /\ results' = EmptyDict
            /\ start_time' = NoTime
            /\ end_time' = NoTime
            /\ tasks' = tasks]_vars

\* C11 witness: reset() has returned on two tasks that a run had touched,
\* one of them depending on the other.
C11_Witness ==
    /\ Done(MainCaller, "reset")
    /\ ret[MainCaller].err = "ok"
    /\ ~fresh
    /\ Len(tasks) = 2
    /\ \E n \in Registered : task[n].dependencies # <<>>

\* Some caller is between the start of its run() and its return or failure.
RunInProgress == \E d \in Callers : pc[d] \in RunBody \cup {"enter"}

\* C12 as stated: at any moment at which a run() is in progress, reset()
\* fails with the cannot-reset error and changes no task, results or run
\* timestamps, so that no step of reset() returns a task to Pending while a
\* run is in progress.
C12_NoResetDuringRun ==
    [][\A c \in Callers :
         (RunInProgress /\ Returns(c, "reset")) =>
            /\ ret'[c].err = "cannot_reset"
            /\ task' = task
            /\ results' = results
            /\ start_time' = start_time
            /\ end_time' = end_time]_vars

\* C13 as stated: remove_task(name) fails with the not-found error when name
\* is not registered; for a registered name it fails with the
\* dependents-exist error, changing nothing, exactly when some other
\* registered task lists name among its dependencies; otherwise it removes
\* that task and no other: one task fewer, the others as they were.
C13_RemoveTask ==
    [][\A c \in Callers :
         Returns(c, "remove_task") =>
            LET name == ret'[c].task
            IN  IF name \notin Registered
                THEN ret'[c].err = "not_found" /\ tasks' = tasks /\ task' = task
                ELSE IF \E t \in Registered \ {name} :
                            name \in Range(task[t].dependencies)
                THEN ret'[c].err = "dependents" /\ tasks' = tasks /\ task' = task
                ELSE /\ ret'[c].err = "ok"
                     /\ Len(tasks') = Len(tasks) - 1
                     /\ Range(tasks') = Registered \ {name}
                     /\ \A m \in Registered \ {name} : task'[m] = task[m]]_vars

\* C14: add_task with a registered name fails with the duplicate error and
\* leaves the dict and every task, the existing one included, as they were;
\* with a new name it registers that one task, Pending with attempts 0, and
\* leaves the others as they were; no name is ever registered twice.
C14_AddTask ==
    /\ [][\A c \in Callers :
            Returns(c, "add_task") =>
               LET name == ret'[c].task
               IN  IF name \in Registered
                   THEN /\ ret'[c].err = "duplicate"
                        /\ tasks' = tasks
                        /\ task' = task
                   ELSE /\ ret'[c].err = "ok"
                        /\ tasks' = Append(tasks, name)
                        /\ task'[name].status = "pending"
                        /\ task'[name].attempts = 0
                        /\ \A m \in Registered : task'[m] = task[m]]_vars
    /\ [](Cardinality(Registered) = Len(tasks))

\* C14 witness: add_task has failed on the name of a task that a run had
\* completed, beside a second registered task.
C14_Witness ==
    /\ Done(MainCaller, "add_task")
    /\ ret[MainCaller].err = "duplicate"
    /\ task[ret[MainCaller].task].status = "completed"
    /\ Len(tasks) = 2

\* The pairs of a registered task and a name it lists that is not registered.
DanglingPairs ==
    {p \in Registered \X TaskNames :
        p[2] \in Range(task[p[1]].dependencies) \ Registered}

\* C15 as stated: validate() does not fail and changes no state; the list it
\* returns holds exactly one entry for each pair of a task and a dependency
\* of it that is not registered, so it is empty exactly when every
\* dependency of every registered task is registered.
C15_ValidateOnePerPair ==
    [][\A c \in Callers :
         Returns(c, "validate") =>
            /\ ret'[c].err = "ok"
            /\ orch' = orch
            /\ Range(ret'[c].value) = DanglingPairs
            /\ Len(ret'[c].value) = Cardinality(DanglingPairs)
            /\ (ret'[c].value = <<>>) <=> DepsRegistered]_vars

\* C16: while some registered task lists an unregistered dependency,
\* plan_execution fails with the validation errors and stores no order
\* (execution_order is as before), and run, in both modes, fails with them
\* before any attempt has begun: no step of the run changes a task.
C16_UnknownDependency ==
    /\ [][\A c \in Callers :
            (~DepsRegistered /\ Returns(c, "plan_execution")) =>
               /\ ret'[c].err = "validation"
               /\ execution_order' = execution_order]_vars
    /\ [][\A c \in Callers :
            (~DepsRegistered /\ Returns(c, "run")) =>
               /\ ret'[c].err = "validation"
               /\ NothingStarted
               /\ execution_order' = execution_order]_vars
    /\ [][(is_running /\ ~DepsRegistered) => task' = task]_vars

\* C16 witness: a run in parallel mode has failed on the validation errors
\* with two tasks registered, one of them runnable.
C16_Witness ==
    /\ Done(MainCaller, "run")
    /\ parallel[MainCaller]
    /\ ret[MainCaller].err = "validation"
    /\ Len(tasks) = 2
    /\ \E n \in Registered : task[n].dependencies = <<>>

\* C17: with one thread calling, is_running is true exactly from the start
\* of planning until run() returns or fails, whatever the reason; it is
\* false once run() has ended, so no later run() or reset() is rejected
\* as running.
C17_RunningFlag ==
    /\ is_running <=> pc[MainCaller] \in RunBody
    /\ Done(MainCaller, "run") => ~is_running
    /\ ret[MainCaller].err \notin {"already_running", "cannot_reset"}

\* C17 witness: a run has been admitted and is planning while a task is
\* still Failed from the run before, which ended on that task's failure.
C17_Witness ==
    /\ pc[MainCaller] = "plan"
    /\ is_running
    /\ NothingStarted
    /\ \E n \in Registered : task[n].status = "failed"

\* The values of pc inside get_status.
StatusBody == {"gs_tasks", "gs_completed", "gs_failed"}

\* Caller c takes a step of get_status.
GetStatusStep(c) ==
    /\ pc[c] \in StatusBody \/ pc'[c] \in StatusBody
    /\ pc'[c] # pc[c] \/ snap'[c] # snap[c]

\* The number of registered tasks whose status is st after the step.
CountNow(st) == Cardinality({n \in Registered : task'[n].status = st})

\* The dict d that get_status returns agrees with the state after the step.
StatusIsCurrent(d) ==
    /\ d.completed_tasks = CountNow("completed")
    /\ d.failed_tasks = CountNow("failed")
    /\ d.tasks = [i \in 1..Len(tasks) |-> <<tasks[i], task'[tasks[i]].status>>]

\* No other call was in progress when caller c entered get_status, and none
\* has begun since.
Undisturbed(c) == snap[c].quiet /\ snap[c].calls = calls

\* C18 as stated: get_status changes no state whenever it is called, and
\* in the dict it returns total_tasks is the number of registered tasks,
\* completed_tasks and failed_tasks are the numbers of tasks whose status is
\* Completed and Failed, and each task's status is its current status.
C18_StatusIsCurrent ==
    [][\A c \in Callers :
         /\ GetStatusStep(c) => orch' = orch
         /\ Returns(c, "get_status") =>
               /\ ret'[c].value.total_tasks = Len(tasks)
               /\ StatusIsCurrent(ret'[c].value)]_vars

\* C18 amended: get_status changes no state whenever it is called, before,
\* during or after a run, and total_tasks is the number of registered tasks;
\* the two counts and each task's status are the current ones when no other
\* call was in progress during the call.  During a run each value is the
\* one read when its turn came.
C18_StatusFrame ==
    [][\A c \in Callers :
         /\ GetStatusStep(c) => orch' = orch
         /\ Returns(c, "get_status") =>
               /\ ret'[c].value.total_tasks = Len(tasks)
               /\ Undisturbed(c) => StatusIsCurrent(ret'[c].value)]_vars

\* C18 witness: get_status, called during a run of two tasks, has returned a
\* dict that says the run is on and shows a task Running; the run goes on.
C18_Witness ==
    /\ Done(Observer, "get_status")
    /\ ret[Observer].value.is_running
    /\ ret[Observer].value.total_tasks = 2
    /\ \E i \in 1..2 : ret[Observer].value.tasks[i][2] = "running"
    /\ pc[MainCaller] \in RunBody

\* Every registered task is Completed and results has its keys, one each.
AllCompleted ==
    /\ \A n \in Registered : task[n].status = "completed"
    /\ DOMAIN results = Registered

\* C19: on an acyclic task set whose dependencies are all registered, with
\* any max_workers and in either mode, a run in which every call of a task's
\* function ends comes to its end; it fails only on a task whose
\* retry_count + 1 calls all failed, and otherwise returns with every
\* registered task Completed and one entry per registered task in results.
C19_RunCompletes ==
    /\ [](\A c \in Callers :
            (Done(c, "run") /\ DepsRegistered /\ ~HasCycle) =>
                \/ ret[c].err = "ok" /\ AllCompleted
                \/ /\ ret[c].err = "task_failed"
                   /\ ret[c].task \in Registered
                   /\ Exhausted(ret[c].task))
    /\ (pc[MainCaller] \in RunBody /\ DepsRegistered /\ ~HasCycle)
           ~> Done(MainCaller, "run")

\* C19 witness: a parallel run of two tasks has returned in which a task
\* failed once and was retried, on a pool of two threads.
C19_Witness ==
    /\ Done(MainCaller, "run")
    /\ ret[MainCaller].err = "ok"
    /\ parallel[MainCaller]
    /\ max_workers = 2
    /\ Len(tasks) = 2
    /\ AllCompleted
    /\ \E n \in Registered : invocations[n] = 2

\* C20 as stated: while a run is in progress no task's attempts field
\* decreases, and it grows from the start of one attempt to the start of
\* the next: in a run begun on fresh tasks it is, when a retry starts, at
\* least the number of attempts of the task started so far.
C20_AttemptsNeverDecrease ==
    [][(is_running /\ is_running') =>
          \A n \in Registered :
             /\ task'[n].attempts >= task[n].attempts
             /\ (fresh /\ invocations'[n] > invocations[n]) =>
                    task'[n].attempts >= invocations'[n]]_vars

\* The changes of status spec'd for a task during a run.
AttemptTransitions ==
    {<<"pending", "running">>, <<"failed", "running">>,
     <<"running", "completed">>, <<"running", "failed">>}

\* C21 as stated: while a run is in progress a task's status changes only
\* from Pending or Failed to Running and from Running to Completed or
\* Failed; a task that failed stays Failed, its error set, until its next
\* attempt starts, and is never put back to Pending by the retry loop.
C21_StatusTransitions ==
    [][(is_running /\ is_running') =>
          \A n \in Registered :
             /\ \/ task'[n].status = task[n].status
                \/ <<task[n].status, task'[n].status>> \in AttemptTransitions
             /\ (task[n].status = "failed" /\ task'[n].status # "running") =>
                    (task'[n].status = "failed" /\ task'[n].error # None)]_vars

\* C22 as stated: in every state, after several runs without a reset too, a
\* task's result is set only if its status is Completed and its error only
\* if its status is Failed, so a task whose last attempt failed has no
\* result.
C22_ResultAndErrorMatchStatus ==
    \A n \in Registered :
        /\ task[n].result # None => task[n].status = "completed"
        /\ task[n].error # None => task[n].status = "failed"

\* Caller c takes the step in which _run_parallel submits a batch.
Dispatches(c) == pc[c] = "par_loop" /\ pc'[c] = "par_wait"

\* C23 as stated: in parallel mode a task is submitted only if at that
\* moment its status is Pending, every dependency of it has status
\* Completed and it was not submitted before in this run; also in a run
\* made without reset() after an earlier run.
C23_DispatchOnlyPending ==
    [][\A c \in Callers :
         Dispatches(c) =>
            \A n \in future_to_task'[c] :
               /\ task[n].status = "pending"
               /\ \A d \in Range(task[n].dependencies) :
                     task[d].status = "completed"
               /\ frame[c][n] = NoFrame
               /\ n \notin completed_tasks[c]]_vars

\* C24: within one run, in either mode, a task is handed to the retry loop
\* at most once (when it is submitted or, in sequential mode, started, it
\* has no activation and its function was not called in this run), and an
\* attempt of a task starts only when no attempt of it is in progress: the
\* task is not Running and its activation is new, queued or in its backoff.
C24_OneAttemptAtATime ==
    [][\A c \in Callers, n \in TaskNames :
         /\ (frame'[c][n].phase = "queued" /\ frame[c][n].phase # "queued") =>
               (frame[c][n] = NoFrame /\ invocations[n] = 0)
         /\ (pc[c] = "seq_loop" /\ frame'[c][n].phase = "running") =>
               (frame[c][n] = NoFrame /\ invocations[n] = 0)
         /\ invocations'[n] > invocations[n] =>
               /\ task[n].status # "running"
               /\ frame[c][n].phase \in {"none", "queued", "sleep"}
               /\ Len(SelectSeq(work_queue[c], LAMBDA x : x = n)) <= 1]_vars

\* C24 witness: in a parallel run two tasks are Running at once, one of them
\* in its second attempt.
C24_Witness ==
    /\ parallel[MainCaller]
    /\ \E n, m \in Registered :
          /\ n # m
          /\ frame[MainCaller][n] = [phase |-> "running", attempts |-> 1]
          /\ frame[MainCaller][m].phase = "running"
          /\ task[n].status = "running"
          /\ task[m].status = "running"

\* The tasks whose retry loop is under way in caller c's run: between the
\* start of the first attempt and the end of the last, backoff included.
InRetryLoop(c) ==
    {n \in TaskNames :
        frame[c][n].phase \in {"running", "returned", "caught", "sleep"}}

\* C25: during a parallel run at most max_workers tasks are in their retry
\* loop, a task waiting out its backoff counted, and so at most max_workers
\* tasks are Running, however many tasks were submitted.
C25_AtMostMaxWorkers ==
    \A c \in Callers :
        parallel[c] =>
            /\ Cardinality(InRetryLoop(c)) <= max_workers
            /\ Cardinality({n \in Registered : task[n].status = "running"})
                   <= max_workers

\* C25 witness: on a pool of one thread a task waits out its backoff while
\* another task of the batch is still queued.
C25_Witness ==
    /\ parallel[MainCaller]
    /\ max_workers = 1
    /\ work_queue[MainCaller] # <<>>
    /\ \E n \in Registered : frame[MainCaller][n].phase = "sleep"

\* C26: in parallel mode, whenever the while loop of _run_parallel comes
\* round with fewer tasks finished than registered, some unfinished task has
\* all its dependencies finished, so the exit taken on an empty ready list is
\* never taken; a parallel run that returns has called every registered
\* task's function.
C26_ReadyListNeverEmpty ==
    \A c \in Callers :
        /\ (pc[c] = "par_loop" /\ Cardinality(completed_tasks[c]) < Len(tasks)) =>
              /\ \E n \in Registered \ completed_tasks[c] :
                    Range(task[n].dependencies) \subseteq completed_tasks[c]
              /\ ReadyTasks(execution_order, completed_tasks[c]) # <<>>
        /\ (Done(c, "run") /\ parallel[c] /\ ret[c].err = "ok") =>
              \A n \in Registered : invocations[n] >= 1

\* C26 witness: the while loop comes round after a first batch of one task,
\* with two tasks still to run.
C26_Witness ==
    /\ pc[MainCaller] = "par_loop"
    /\ Len(tasks) = 3
    /\ Cardinality(completed_tasks[MainCaller]) = 1

\* The largest position in the order s of a dependency of n: the step of the
\* planner at which n loses its last unplaced dependency (0 when n has none).
LastDependency(s, n) ==
    LET ps == {Position(s, d) : d \in Range(task[n].dependencies)}
    IN  IF ps = {} THEN 0 ELSE CHOOSE p \in ps : \A q \in ps : q <= p

\* The dict is the one of the example: a; b <- a; c <- a; d <- b, c.
IsDiamond ==
    /\ tasks = <<"a", "b", "c", "d">>
    /\ task["a"].dependencies = <<>>
    /\ task["b"].dependencies = <<"a">>
    /\ task["c"].dependencies = <<"a">>
    /\ task["d"].dependencies = <<"b", "c">>

\* C27: the order plan_execution returns is the one of Kahn's algorithm with
\* a first-in first-out queue seeded in registration order: it begins with
\* the tasks that have no dependencies, in registration order; the others
\* follow in the order in which their last dependency was placed, tasks freed
\* by the same step in registration order; so the order is a function of the
\* dict alone, and for a; b <- a; c <- a; d <- b, c it is [a, b, c, d].
C27_PlanIsFifoKahn ==
    (Done(MainCaller, "plan_execution") /\ ret[MainCaller].err = "ok") =>
        LET o == execution_order
            seed == SelectSeq(tasks, LAMBDA n : task[n].dependencies = <<>>)
        IN  /\ Len(o) >= Len(seed)
            /\ SubSeq(o, 1, Len(seed)) = seed
            /\ \A i, j \in 1..Len(o) :
                  i < j =>
                     \/ LastDependency(o, o[i]) < LastDependency(o, o[j])
                     \/ /\ LastDependency(o, o[i]) = LastDependency(o, o[j])
                        /\ Position(tasks, o[i]) < Position(tasks, o[j])
            /\ IsDiamond => o = <<"a", "b", "c", "d">>

\* C27 witness: plan_execution has returned the order of the example.
C27_Witness ==
    /\ Done(MainCaller, "plan_execution")
    /\ ret[MainCaller].err = "ok"
    /\ IsDiamond
    /\ execution_order = <<"a", "b", "c", "d">>

\* The tasks whose status is Running.
RunningTasks == {n \in Registered : task[n].status = "running"}

\* The step is the first call, in the run under way, of the function of n.
FirstAttemptBegins(n) == invocations[n] = 0 /\ invocations'[n] = 1

\* C28: in a sequential run the tasks begin in the order of the plan (when a
\* task begins its first attempt, every task before it in the order has
\* begun and none after it has), the task just before it is Completed, as
\* are all before it, retries included, and at most one task is Running.
C28_SequentialInPlanOrder ==
    /\ [](\A c \in Callers :
            (~parallel[c] /\ pc[c] \in {"seq_loop", "seq_exec"}) =>
                /\ Cardinality(RunningTasks) <= 1
                /\ pc[c] = "seq_loop" => RunningTasks = {})
    /\ [][\A c \in Callers, n \in TaskNames :
            (~parallel[c] /\ pc[c] \in {"seq_loop", "seq_exec"}
                /\ FirstAttemptBegins(n)) =>
                LET k == Position(execution_order, n)
                IN  /\ k > 0
                    /\ task'[n].status = "running"
                    /\ \A j \in 1..Len(execution_order) :
                          /\ j < k =>
                                /\ invocations[execution_order[j]] >= 1
                                /\ task[execution_order[j]].status = "completed"
                          /\ j > k => invocations[execution_order[j]] = 0]_vars

\* C28 witness: the third task of a sequential run is Running after the
\* second one was completed by a retry.
C28_Witness ==
    /\ ~parallel[MainCaller]
    /\ pc[MainCaller] = "seq_exec"
    /\ Len(execution_order) = 3
    /\ task[execution_order[3]].status = "running"
    /\ invocations[execution_order[2]] = 2
    /\ task[execution_order[2]].status = "completed"

\* C29: whenever is_running is false (before the first run, between runs,
\* after a run has returned or failed in either mode), no registered task is
\* Running, no attempt is under way or queued, and every task the run that
\* has just ended has called is Completed or Failed.
C29_NoneRunningOutsideRun ==
    ~is_running =>
        /\ RunningTasks = {}
        /\ \A c \in Callers : Busy(c) = {} /\ work_queue[c] = <<>>
        /\ \A c \in Callers, n \in Registered :
              (Done(c, "run") /\ invocations[n] >= 1) =>
                  task[n].status \in {"completed", "failed"}

\* C29 witness: a parallel run with two workers has failed on one task of a
\* batch of two and has given control back; the other task was called too.
C29_Witness ==
    /\ Done(MainCaller, "run")
    /\ parallel[MainCaller]
    /\ ~is_running
    /\ max_workers = 2
    /\ ret[MainCaller].err = "task_failed"
    /\ \E n, m \in Registered :
          /\ n # m
          /\ task[n].dependencies = <<>> /\ task[m].dependencies = <<>>
          /\ invocations[n] >= 1 /\ invocations[m] >= 1
          /\ task[n].status = "failed"

\* The tasks of caller c's pool that are queued or inside _execute_task.
Unfinished(c) == Busy(c) \cup Range(work_queue[c])

\* C30: a parallel run proceeds in batches with a barrier: when the
\* coordinator submits a batch, every task of the batch before it has been
\* handed out by as_completed and no task is queued or executing; so the
\* tasks queued or executing at any time all belong to the current batch,
\* and a task begins only as a member of it.
C30_BatchBarrier ==
    /\ [](\A c \in Callers :
            parallel[c] =>
                /\ Unfinished(c) \subseteq future_to_task[c]
                /\ pc[c] = "par_loop" =>
                      /\ Unfinished(c) = {}
                      /\ yielded[c] = future_to_task[c])
    /\ [][\A c \in Callers :
            /\ Dispatches(c) =>
                  /\ Unfinished(c) = {}
                  /\ yielded[c] = future_to_task[c]
                  /\ \A n \in future_to_task[c] :
                        frame[c][n].phase = "done_ok"
            /\ \A n \in TaskNames :
                  (parallel[c] /\ pc[c] \in RunBody /\ FirstAttemptBegins(n)) =>
                      /\ n \in future_to_task[c]
                      /\ Unfinished(c) \subseteq future_to_task[c]]_vars

\* C30 witness: with a free worker, a task outside the current batch has all
\* its dependencies Completed while another task of the batch is executing.
C30_Witness ==
    /\ parallel[MainCaller]
    /\ pc[MainCaller] = "par_wait"
    /\ max_workers = 2
    /\ Cardinality(Busy(MainCaller)) = 1
    /\ work_queue[MainCaller] = <<>>
    /\ \E n \in Registered \ future_to_task[MainCaller] :
          /\ task[n].status = "pending"
          /\ task[n].dependencies # <<>>
          /\ \A d \in Range(task[n].dependencies) :
                task[d].status = "completed" /\ d \in yielded[MainCaller]

\* The errors run() fails with after it has entered its body.
RunFailures == {"validation", "cyclic", "task_failed"}

\* C31: run() stamps start_time and empties results on entry and stamps
\* end_time only when it returns normally; no other step of a run changes
\* end_time, so a run that fails on validation, on a cycle or on a task
\* leaves end_time as it was before the call: None, or the end_time of an
\* earlier run, which is earlier than the new start_time; results then holds
\* nothing but results of the failed run.
C31_EndTimeOnlyOnSuccess ==
    /\ [][\A c \in Callers :
            /\ (pc[c] = "enter" /\ pc'[c] # "enter") =>
                  /\ start_time' = Now
                  /\ start_time' # NoTime
                  /\ results' = EmptyDict
                  /\ end_time' = end_time
                  /\ end_time # NoTime => end_time < start_time'
            /\ (pc[c] \in RunBody /\ ~Returns(c, "run")) =>
                  end_time' = end_time /\ start_time' = start_time
            /\ (Returns(c, "run") /\ ret'[c].err = "ok") =>
                  /\ end_time' = Now
                  /\ end_time' # NoTime
                  /\ start_time' = start_time
                  /\ start_time <= end_time'
            /\ (Returns(c, "run") /\ ret'[c].err \in RunFailures) =>
                  /\ end_time' = end_time
                  /\ start_time' = start_time]_vars
    /\ [](\A c \in Callers :
            (Done(c, "run") /\ ret[c].err \in RunFailures) =>
                /\ start_time # NoTime
                /\ end_time = NoTime \/ end_time < start_time
                /\ DOMAIN results \subseteq {n \in TaskNames : invocations[n] >= 1}
                /\ ret[c].err # "task_failed" => results = EmptyDict)

\* C31 witness: a run has failed on a task after an earlier run had returned
\* normally, and end_time is still the one of the earlier run.
C31_Witness ==
    /\ Done(MainCaller, "run")
    /\ ret[MainCaller].err = "task_failed"
    /\ end_time # NoTime
    /\ end_time < start_time
    /\ Len(tasks) = 2
    /\ DOMAIN results # {}

\* The values of TaskStatus the code assigns.
AssignedStatuses == {"pending", "running", "completed", "failed"}

\* C32: no operation assigns the status Skipped: after any sequence of
\* add_task, remove_task, plan_execution, run and reset every task's status
\* is Pending, Running, Completed or Failed; and a run changes only tasks it
\* has started, so the tasks a failed run has not started have the status
\* they had before it (Pending when the run began on untouched tasks).
C32_NeverSkipped ==
    /\ [](\A n \in Registered : task[n].status \in AssignedStatuses)
    /\ [][\A n \in Registered :
            (RunInProgress /\ n \in Range(tasks') /\ task'[n] # task[n]) =>
                /\ invocations'[n] >= 1
                /\ task'[n].status \in AssignedStatuses]_vars
    /\ [](\A c \in Callers, n \in Registered :
            (Done(c, "run") /\ ret[c].err \in RunFailures
                /\ invocations[n] = 0 /\ fresh) =>
                task[n].status = "pending")

\* C32 witness: a run made after a run that completed two tasks has failed
\* on the first of them; the second was not started and is still Completed.
C32_Witness ==
    /\ Done(MainCaller, "run")
    /\ ret[MainCaller].err = "task_failed"
    /\ Len(tasks) = 2
    /\ \E n \in Registered :
          /\ invocations[n] = 0
          /\ task[n].status = "completed"
          /\ Position(execution_order, n) = 2

=============================================================================
